---- MODULE Spec2Model ----
(***************************************************************************)
(* Event segmentation and metrics of the CGM package (src/events.py,       *)
(* src/features.py).  A trace is a sequence of samples [t, g]: t is the    *)
(* timestamp in minutes, g the glucose value.  Positions are 0-based as in *)
(* the code (iloc); the operator Iloc converts to TLA+'s 1-based           *)
(* sequences.                                                              *)
(***************************************************************************)
EXTENDS Integers, Sequences, FiniteSets, TLC

VARIABLES
  data,      \* the patient's trace handed to the function under analysis
  args,      \* the arguments of the running detector call
  params,    \* the arguments of the public function that was called
  pc,        \* position of the running call
  edges,     \* the edge list of the merge loop (0-based positions, then -1)
  index,     \* the loop index into edges (index in _episodes_helper, i in get_excursions)
  events,    \* the events collected by the running loop (episodes / excursions)
  band,      \* get_episodes: number of severity bands already processed
  output,    \* get_episodes: concatenated (finally sorted) events
  result,    \* what the called public function returned or raised
  features   \* create_event_features_helper: the per-feature lists built by its loop

vars == <<data, args, params, pc, edges, index, events, band, output, result, features>>

-----------------------------------------------------------------------------
(* Bounds of the model *)

\* longest trace
MaxLen == 5
\* longest trace that holds irregular gaps
MaxGapLen == 4
\* most irregular gaps in one trace
MaxGaps == 1

(* config["variables"]["interval"]: the sampling interval in minutes *)
interval == 5

-----------------------------------------------------------------------------
(* Generic helpers: pandas / python list primitives *)

\* df.iloc[i] with python's negative positions
Iloc(s, i) == IF i < 0 THEN s[Len(s) + i + 1] ELSE s[i + 1]

\* python list indexing edges[i]
ListGet(l, i) == l[i + 1]

\* variant: the boundary stays in the list
ListPop_KeepsBoundary(l, i) == l

\* python list.pop(i): the list without position i
ListPop(l, i) == [k \in 1..(Len(l) - 1) |-> IF k < i + 1 THEN l[k] ELSE l[k + 1]]

\* s.iloc[a:b]: positions a .. b-1, truncated to the sequence
IlocSlice(s, a, b) ==
  LET lo == IF a < 0 THEN 0 ELSE a
      hi == IF b > Len(s) THEN Len(s) ELSE b
  IN  IF hi <= lo THEN <<>> ELSE [k \in 1..(hi - lo) |-> s[lo + k]]

\* math.ceil(a / b) for a >= 0, b > 0
Ceil(a, b) == (a + b - 1) \div b

\* the outcome of a call: nothing yet, an exception, or a returned value
NoResult == [status |-> "none"]
Raised(error) == [status |-> "raised", error |-> error]
Returned(value) == [status |-> "returned", value |-> value]

\* the feature lists of create_event_features_helper before the function runs
NoFeatures == <<>>

\* floats: the values met here are quotients of small integers, kept exact
\* as num / den with den > 0; NaN is a value of its own
Float(num, den) == [nan |-> FALSE, num |-> num, den |-> den]
NaN == [nan |-> TRUE, num |-> 0, den |-> 1]

\* abs(x)
Abs(x) == IF x < 0 THEN -x ELSE x

\* timegap(timedelta): minutes between two timestamps
timegap(later, earlier) == later - earlier

\* data.index[data[TIME] == time].to_list()[0]: first position holding the timestamp
IndexOfTime(df, time) ==
  CHOOSE i \in 0..(Len(df) - 1) :
    /\ df[i + 1].t = time
    /\ \A j \in 0..(i - 1) : df[j + 1].t # time

-----------------------------------------------------------------------------
(* Traces: strictly increasing timestamps starting at 0.  Traces of up to   *)
(* MaxLen samples are evenly sampled; traces of up to MaxGapLen samples    *)
(* may also hold up to MaxGaps irregular gaps (missing data, or a sample   *)
(* that came early).                                                       *)

GlucoseValues == {1, 2, 3}
GapChoices == {interval, 2 * interval, interval - 2}

RECURSIVE TimeAt(_, _)
TimeAt(gaps, k) == IF k = 1 THEN 0 ELSE TimeAt(gaps, k - 1) + gaps[k - 1]

MakeTrace(gs, gaps) == [k \in 1..Len(gs) |-> [t |-> TimeAt(gaps, k), g |-> gs[k]]]

GapSeqs(n) ==
  {gaps \in [1..(n - 1) -> GapChoices] :
     LET irregular == Cardinality({k \in 1..(n - 1) : gaps[k] # interval})
     IN  irregular = 0 \/ (n <= MaxGapLen /\ irregular <= MaxGaps)}

Traces ==
  UNION {{MakeTrace(gs, gaps) : gs \in [1..n -> GlucoseValues], gaps \in GapSeqs(n)} :
         n \in 1..MaxLen}

\* evenly sampled traces of the longest size with a low level and two high
\* levels far from it: two different values can lie beyond the same z-score bound
SpikeValues == {1, 20, 21}
SpikeTraces ==
  {MakeTrace(gs, [k \in 1..(MaxLen - 1) |-> interval]) : gs \in [1..MaxLen -> SpikeValues]}

-----------------------------------------------------------------------------
(* _episodes_helper (src/events.py:153-224) *)

\* variant: exclusive comparisons
InEpisode_Exclusive(type, threshold, g) ==
  IF type = "hypo" THEN g < threshold ELSE g > threshold

\* the direction/threshold predicate selecting episode_df
InEpisode(type, threshold, g) == IF type = "hypo" THEN g <= threshold ELSE g >= threshold

\* episode_df: the rows satisfying the predicate, index reset
EpisodeDf(df, type, threshold) == SelectSeq(df, LAMBDA r : InEpisode(type, threshold, r.g))

\* variant: only a gap larger than the interval breaks a run
IsEdge_LargerGapOnly(edf, k) == \/ k = 0
                                \/ timegap(edf[k + 1].t, edf[k].t) > interval

\* row k (0-based) of the masked table is an edge when its "gap" column differs
\* from the interval; the first row's gap is NaN, which differs from everything
IsEdge(edf, k) == \/ k = 0
                  \/ timegap(edf[k + 1].t, edf[k].t) # interval

\* edges = index[gap != interval].to_list(); edges.append(-1)
EdgeList(edf) ==
  Append(SelectSeq([k \in 1..Len(edf) |-> k - 1], LAMBDA k : IsEdge(edf, k)), -1)

\* variant: the last interval is not told apart
Offset_AlwaysOne(es, i) == 1

\* offset = 0 if (index == len(edges) - 2) else 1
Offset(es, i) == IF i = Len(es) - 2 THEN 0 ELSE 1

\* variant: only the sample end_counts behind the end is looked at
EndData_LastSampleOnly(df, end_time, end_length) ==
  LET end_counts == Ceil(end_length, interval)
      end_index == IndexOfTime(df, end_time)
  IN  IlocSlice(df, end_index + end_counts, end_index + 1 + end_counts)

\* the samples following the end of the interval that must have returned to normal
EndData(df, end_time, end_length) ==
  LET end_counts == Ceil(end_length, interval)
      end_index == IndexOfTime(df, end_time)
  IN  IlocSlice(df, end_index + 1, end_index + 1 + end_counts)

\* outside_threshold for one look-ahead sample
OutsideThreshold(type, threshold, g) ==
  IF type = "hypo" THEN g >= threshold ELSE g <= threshold

\* "False in outside_threshold"
NotEnded(df, a, end_time) ==
  LET end_data == EndData(df, end_time, a.end_length)
  IN  \E k \in 1..Len(end_data) : ~OutsideThreshold(a.type, a.threshold, end_data[k].g)

\* variant: the end of an interval read at the boundary itself, the first row of
\* the next interval
EndIdx_NextStart(es, i) == ListGet(es, i + 1)

\* start_time, end_time and episode_length of the interval at edges[index]
StartIdx(es, i) == ListGet(es, i)
EndIdx(es, i) == ListGet(es, i + 1) - Offset(es, i)
StartTime(edf, es, i) == Iloc(edf, StartIdx(es, i)).t
EndTime(edf, es, i) == Iloc(edf, EndIdx(es, i)).t

\* variant: the length short of one sampling interval
EpisodeLength_LessOneInterval(edf, es, i) ==
  timegap(EndTime(edf, es, i), StartTime(edf, es, i)) - interval

\* episode_length = timegap(end_time - start_time)
EpisodeLength(edf, es, i) == timegap(EndTime(edf, es, i), StartTime(edf, es, i))

\* variant: the length counted in samples times the interval
LongEnough_CountsSamples(length, min_length) == length + interval >= min_length

\* the length filter: "if episode_length >= min_length"
LongEnough(length, min_length) == length >= min_length

\* variant: an interval that is too short is merged forward like a long one
LoopBranch_MergesShort(df, a, es, i) ==
  LET edf == EpisodeDf(df, a.type, a.threshold)
  IN  IF Offset(es, i) # 0 /\ NotEnded(df, a, EndTime(edf, es, i)) THEN "merge"
      ELSE IF ~LongEnough(EpisodeLength(edf, es, i), a.min_length) THEN "discard"
      ELSE "emit"

\* which branch one iteration of the while loop takes
LoopBranch(df, a, es, i) ==
  LET edf == EpisodeDf(df, a.type, a.threshold)
  IN  IF ~LongEnough(EpisodeLength(edf, es, i), a.min_length) THEN "discard"
      ELSE IF Offset(es, i) # 0 /\ NotEnded(df, a, EndTime(edf, es, i)) THEN "merge"
      ELSE "emit"

\* f"{type} level {level} episode"
EpisodeType(type, level) == <<type, "level", level, "episode">>

\* the Event record appended by one emitting iteration
EpisodeEvent(df, a, es, i) ==
  LET edf == EpisodeDf(df, a.type, a.threshold)
      start_time == StartTime(edf, es, i)
      end_time == EndTime(edf, es, i)
  IN  [id |-> a.id, time |-> start_time, before |-> 0,
       after |-> timegap(end_time, start_time),
       type |-> EpisodeType(a.type, a.level),
       description |-> <<start_time, "to", end_time>>]

\* the whole while loop from (edges, index, episodes), as the code runs it
RECURSIVE RunLoop(_, _, _, _, _)
RunLoop(df, a, es, i, eps) ==
  IF ~(i < Len(es) - 1) THEN eps
  ELSE LET br == LoopBranch(df, a, es, i)
       IN  IF br = "merge" THEN RunLoop(df, a, ListPop(es, i + 1), i, eps)
           ELSE IF br = "emit"
                THEN RunLoop(df, a, es, i + 1, Append(eps, EpisodeEvent(df, a, es, i)))
                ELSE RunLoop(df, a, es, i + 1, eps)

\* _episodes_helper as a function of its arguments
EpisodesHelper(df, a) ==
  RunLoop(df, a, EdgeList(EpisodeDf(df, a.type, a.threshold)), 0, <<>>)

(* the call, step by step *)

HelperEnter ==
  /\ pc = "helper_call"
  /\ edges' = EdgeList(EpisodeDf(data, args.type, args.threshold))
  /\ index' = 0
  /\ events' = <<>>
  /\ pc' = "helper_loop"
  /\ UNCHANGED <<data, args, params, band, output, result, features>>

HelperMerge ==
  /\ pc = "helper_loop"
  /\ index < Len(edges) - 1
  /\ LoopBranch(data, args, edges, index) = "merge"
  /\ edges' = ListPop(edges, index + 1)
  /\ UNCHANGED <<data, args, pc, index, events, params, band, output, result, features>>

HelperEmit ==
  /\ pc = "helper_loop"
  /\ index < Len(edges) - 1
  /\ LoopBranch(data, args, edges, index) = "emit"
  /\ events' = Append(events, EpisodeEvent(data, args, edges, index))
  /\ index' = index + 1
  /\ UNCHANGED <<data, args, pc, edges, params, band, output, result, features>>

HelperDiscard ==
  /\ pc = "helper_loop"
  /\ index < Len(edges) - 1
  /\ LoopBranch(data, args, edges, index) = "discard"
  /\ index' = index + 1
  /\ UNCHANGED <<data, args, pc, edges, events, params, band, output, result, features>>

HelperReturn ==
  /\ pc = "helper_loop"
  /\ ~(index < Len(edges) - 1)
  /\ pc' = "helper_done"
  /\ UNCHANGED <<data, args, edges, index, events, params, band, output, result, features>>

-----------------------------------------------------------------------------
(* get_excursions (src/events.py:271-357), for one patient group.          *)
(* mean and sd are reals in the code; the comparisons against               *)
(* upper = mean + z*sd and lower = mean - z*sd are decided here exactly,   *)
(* on integers: with n samples, S their sum and Q the sum of their squares,*)
(* mean = S/n and sd^2 = (n*Q - S^2) / (n*(n-1))   (pandas std, ddof = 1). *)

RECURSIVE SumG(_)
SumG(df) == IF df = <<>> THEN 0 ELSE df[1].g + SumG(Tail(df))

RECURSIVE SumSqG(_)
SumSqG(df) == IF df = <<>> THEN 0 ELSE df[1].g * df[1].g + SumSqG(Tail(df))

\* n * (n - 1) * n * sd^2, the squared right-hand side scaled like Dev^2 * (n - 1)
ScaledVar(df) == Len(df) * (Len(df) * SumSqG(df) - SumG(df) * SumG(df))

\* n * (g - mean)
Dev(df, g) == Len(df) * g - SumG(df)

\* data[GLUCOSE].std() is NaN for a single sample: every comparison is then False
SdIsNaN(df) == Len(df) < 2

\* g >= upper
GeUpper(df, z, g) ==
  /\ ~SdIsNaN(df)
  /\ Dev(df, g) >= 0
  /\ Dev(df, g) * Dev(df, g) * (Len(df) - 1) >= z * z * ScaledVar(df)

\* g <= lower
LeLower(df, z, g) ==
  /\ ~SdIsNaN(df)
  /\ Dev(df, g) <= 0
  /\ Dev(df, g) * Dev(df, g) * (Len(df) - 1) >= z * z * ScaledVar(df)

\* g <= upper
LeUpper(df, z, g) ==
  /\ ~SdIsNaN(df)
  /\ \/ Dev(df, g) <= 0
     \/ Dev(df, g) * Dev(df, g) * (Len(df) - 1) <= z * z * ScaledVar(df)

\* g >= lower
GeLower(df, z, g) ==
  /\ ~SdIsNaN(df)
  /\ \/ Dev(df, g) >= 0
     \/ Dev(df, g) * Dev(df, g) * (Len(df) - 1) <= z * z * ScaledVar(df)

\* g > mean
AboveMean(df, g) == Dev(df, g) > 0

\* timestamps of the local peaks / nadirs: shift(1) and shift(-1) are NaN at the
\* first and the last sample, which are therefore never extrema
Peaks(df) ==
  LET pos == SelectSeq([k \in 1..Len(df) |-> k],
                       LAMBDA k : /\ 1 < k /\ k < Len(df)
                                  /\ df[k - 1].g < df[k].g /\ df[k + 1].g < df[k].g)
  IN  [k \in 1..Len(pos) |-> df[pos[k]].t]

Nadirs(df) ==
  LET pos == SelectSeq([k \in 1..Len(df) |-> k],
                       LAMBDA k : /\ 1 < k /\ k < Len(df)
                                  /\ df[k - 1].g > df[k].g /\ df[k + 1].g > df[k].g)
  IN  [k \in 1..Len(pos) |-> df[pos[k]].t]

\* outliers: the rows at or beyond upper / lower, index reset
Outliers(df, z) == SelectSeq(df, LAMBDA r : GeUpper(df, z, r.g) \/ LeLower(df, z, r.g))

\* type = "hyper" if outliers.iloc[edges[i]][GLUCOSE] > mean else "hypo"
ExcursionType(df, z, es, i) ==
  IF AboveMean(df, Iloc(Outliers(df, z), ListGet(es, i)).g) THEN "hyper" ELSE "hypo"

\* "False in outside_threshold" for the samples behind end_time
ExcursionNotEnded(df, a, type, end_time) ==
  LET last_data == EndData(df, end_time, a.end_length)
  IN  \E k \in 1..Len(last_data) :
        ~(IF type = "hyper" THEN LeUpper(df, a.z, last_data[k].g)
                            ELSE GeLower(df, a.z, last_data[k].g))

\* which branch one iteration of the while loop takes
ExcursionBranch(df, a, es, i) ==
  LET out == Outliers(df, a.z)
  IN  IF ~LongEnough(EpisodeLength(out, es, i), a.min_length) THEN "discard"
      ELSE IF /\ Offset(es, i) # 0
              /\ ExcursionNotEnded(df, a, ExcursionType(df, a.z, es, i), EndTime(out, es, i))
           THEN "merge"
      ELSE "emit"

\* variant: the first row of the interval
Anchor_IntervalStart(df, a, es, i) == StartTime(Outliers(df, a.z), es, i)

\* idxmax / idxmin over outliers.iloc[edges[i]:last_point]: the timestamp of the
\* first row holding the maximum / minimum
Anchor(df, a, es, i) ==
  LET out == Outliers(df, a.z)
      type == ExcursionType(df, a.z, es, i)
      last_point == IF Offset(es, i) # 0 THEN ListGet(es, i + 1) ELSE Len(out)
      rows == IlocSlice(out, ListGet(es, i), last_point)
      best(k) == \A m \in 1..Len(rows) :
                   IF type = "hyper" THEN rows[m].g <= rows[k].g ELSE rows[m].g >= rows[k].g
      first == CHOOSE k \in 1..Len(rows) : best(k) /\ \A m \in 1..(k - 1) : ~best(m)
  IN  rows[first].t

\* variant: the start boundary moved to the earliest extremum before it
SnapStart_Earliest(df, extrema, start_time) ==
  LET before == SelectSeq(extrema, LAMBDA t : t <= start_time)
  IN  IF IndexOfTime(df, start_time) # 0 /\ before # <<>>
      THEN before[1] ELSE start_time

\* the start boundary moved to the nearest extremum at or before it
SnapStart(df, extrema, start_time) ==
  LET before == SelectSeq(extrema, LAMBDA t : t <= start_time)
  IN  IF IndexOfTime(df, start_time) # 0 /\ before # <<>>
      THEN before[Len(before)] ELSE start_time

\* variant: the end boundary moved to the nearest extremum at or before it
SnapEnd_Inward(df, extrema, end_time) ==
  LET before == SelectSeq(extrema, LAMBDA t : t <= end_time)
  IN  IF IndexOfTime(df, end_time) # Len(df) - 1 /\ before # <<>>
      THEN before[Len(before)] ELSE end_time

\* the end boundary moved to the nearest extremum at or after it
SnapEnd(df, extrema, end_time) ==
  LET after == SelectSeq(extrema, LAMBDA t : t >= end_time)
  IN  IF IndexOfTime(df, end_time) # Len(df) - 1 /\ after # <<>>
      THEN after[1] ELSE end_time

\* extrema = peaks if type == "hypo" else nadirs
SnapTargets(df, type) == IF type = "hypo" THEN Peaks(df) ELSE Nadirs(df)

\* the Event record appended by one emitting iteration
ExcursionEvent(df, a, es, i) ==
  LET out == Outliers(df, a.z)
      type == ExcursionType(df, a.z, es, i)
      timestamp == Anchor(df, a, es, i)
      extrema == SnapTargets(df, type)
      start_time == SnapStart(df, extrema, StartTime(out, es, i))
      end_time == SnapEnd(df, extrema, EndTime(out, es, i))
  IN  [id |-> a.id, time |-> timestamp,
       before |-> timegap(timestamp, start_time),
       after |-> timegap(end_time, timestamp),
       type |-> <<type, "excursion">>,
       description |-> <<start_time, "to", end_time>>]

(* the call, step by step *)

ExcursionsEnter ==
  /\ pc = "excursions_call"
  /\ edges' = EdgeList(Outliers(data, args.z))
  /\ index' = 0
  /\ events' = <<>>
  /\ pc' = "excursions_loop"
  /\ UNCHANGED <<data, args, params, band, output, result, features>>

ExcursionsMerge ==
  /\ pc = "excursions_loop"
  /\ index < Len(edges) - 1
  /\ ExcursionBranch(data, args, edges, index) = "merge"
  /\ edges' = ListPop(edges, index + 1)
  /\ UNCHANGED <<data, args, pc, index, events, params, band, output, result, features>>

ExcursionsEmit ==
  /\ pc = "excursions_loop"
  /\ index < Len(edges) - 1
  /\ ExcursionBranch(data, args, edges, index) = "emit"
  /\ events' = Append(events, ExcursionEvent(data, args, edges, index))
  /\ index' = index + 1
  /\ UNCHANGED <<data, args, pc, edges, params, band, output, result, features>>

ExcursionsDiscard ==
  /\ pc = "excursions_loop"
  /\ index < Len(edges) - 1
  /\ ExcursionBranch(data, args, edges, index) = "discard"
  /\ index' = index + 1
  /\ UNCHANGED <<data, args, pc, edges, events, params, band, output, result, features>>

ExcursionsReturn ==
  /\ pc = "excursions_loop"
  /\ ~(index < Len(edges) - 1)
  /\ pc' = "excursions_done"
  /\ UNCHANGED <<data, args, edges, index, events, params, band, output, result, features>>

-----------------------------------------------------------------------------
(* Specification of the detectors on small traces *)

Thresholds == {2}
MinLengths == {5, 10}
EndLengths == {5, 10, 15}

HelperArgs ==
  [fn : {"_episodes_helper"}, id : {"p1"}, type : {"hypo", "hyper"},
   threshold : Thresholds, level : {1}, min_length : MinLengths, end_length : EndLengths]

ZValues == {1, 2}
ExcursionMinLengths == {0, 5}

ExcursionArgs ==
  [fn : {"get_excursions"}, id : {"p1"}, z : ZValues,
   min_length : ExcursionMinLengths, end_length : EndLengths]

Init ==
  /\ \/ data \in Traces /\ args \in HelperArgs /\ pc = "helper_call"
     \/ data \in Traces \cup SpikeTraces /\ args \in ExcursionArgs /\ pc = "excursions_call"
  /\ params = args
  /\ edges = <<>>
  /\ index = 0
  /\ events = <<>>
  /\ band = 0
  /\ output = <<>>
  /\ result = NoResult
  /\ features = NoFeatures

Next ==
  \/ HelperEnter
  \/ HelperMerge
  \/ HelperEmit
  \/ HelperDiscard
  \/ HelperReturn
  \/ ExcursionsEnter
  \/ ExcursionsMerge
  \/ ExcursionsEmit
  \/ ExcursionsDiscard
  \/ ExcursionsReturn

Spec == Init /\ [][Next]_vars

\* the calls followed to their end: a look-ahead of two samples and the shorter
\* minimum lengths
InitLive == Init /\ args.end_length = 2 * interval /\ args.min_length <= interval

\* the interpreter runs the call to its end: a step that can be taken is taken
SpecLive == InitLive /\ [][Next]_vars /\ WF_vars(Next)

-----------------------------------------------------------------------------
(* get_episodes (src/events.py:226-269), for one patient group *)

\* the default thresholds and lengths of get_episodes
hypo_lvl2 == 54
hypo_lvl1 == 70
hyper_lvl0 == 140
hyper_lvl1 == 180
hyper_lvl2 == 250
min_length == 15
end_length == 15

DefaultEpisodeParams ==
  [fn |-> "get_episodes", id |-> "p1",
   hypo_lvl2 |-> hypo_lvl2, hypo_lvl1 |-> hypo_lvl1, hyper_lvl0 |-> hyper_lvl0,
   hyper_lvl1 |-> hyper_lvl1, hyper_lvl2 |-> hyper_lvl2,
   min_length |-> min_length, end_length |-> end_length]

\* variant: only the most severe band of each direction looks ahead before it
\* ends an episode
BandArgs_OnlySevereLooksAhead(p, b) ==
  LET call(type, threshold, level, e) ==
        [fn |-> "_episodes_helper", id |-> p.id, type |-> type, threshold |-> threshold,
         level |-> level, min_length |-> p.min_length, end_length |-> e]
  IN  CASE b = 0 -> call("hyper", p.hyper_lvl0, 0, 0)
        [] b = 1 -> call("hyper", p.hyper_lvl1, 1, 0)
        [] b = 2 -> call("hyper", p.hyper_lvl2, 2, p.end_length)
        [] b = 3 -> call("hypo", p.hypo_lvl1, 1, 0)
        [] b = 4 -> call("hypo", p.hypo_lvl2, 2, p.end_length)

\* the five _episodes_helper calls, in the order of the list handed to pd.concat
BandArgs(p, b) ==
  LET call(type, threshold, level) ==
        [fn |-> "_episodes_helper", id |-> p.id, type |-> type, threshold |-> threshold,
         level |-> level, min_length |-> p.min_length, end_length |-> p.end_length]
  IN  CASE b = 0 -> call("hyper", p.hyper_lvl0, 0)
        [] b = 1 -> call("hyper", p.hyper_lvl1, 1)
        [] b = 2 -> call("hyper", p.hyper_lvl2, 2)
        [] b = 3 -> call("hypo", p.hypo_lvl1, 1)
        [] b = 4 -> call("hypo", p.hypo_lvl2, 2)

NumBands == 5

\* episodes.sort_values(by=[TIME]): ascending timestamps; rows with equal
\* timestamps keep their order (the sort of these short tables is an insertion sort)
RECURSIVE InsertByTime(_, _)
InsertByTime(sorted, e) ==
  IF sorted = <<>> THEN <<e>>
  ELSE IF sorted[Len(sorted)].time <= e.time THEN Append(sorted, e)
  ELSE Append(InsertByTime(SubSeq(sorted, 1, Len(sorted) - 1), e), sorted[Len(sorted)])

RECURSIVE SortByTime(_)
SortByTime(evs) ==
  IF evs = <<>> THEN <<>>
  ELSE InsertByTime(SortByTime(SubSeq(evs, 1, Len(evs) - 1)), evs[Len(evs)])

GetEpisodesCallHelper ==
  /\ pc = "episodes_next"
  /\ band < NumBands
  /\ args' = BandArgs(params, band)
  /\ pc' = "helper_call"
  /\ UNCHANGED <<data, params, edges, index, events, band, output, result, features>>

\* one element of the list handed to pd.concat is ready
GetEpisodesCollect ==
  /\ pc = "helper_done"
  /\ output' = output \o events
  /\ band' = band + 1
  /\ pc' = "episodes_next"
  /\ UNCHANGED <<data, args, params, edges, index, events, result, features>>

\* sort_values(by=[TIME]) on the concatenation; the concatenation of five empty
\* frames has no column to sort by, and sort_values raises KeyError
GetEpisodesReturn ==
  /\ pc = "episodes_next"
  /\ band = NumBands
  /\ IF output = <<>>
     THEN pc' = "episodes_raised" /\ result' = Raised("KeyError") /\ UNCHANGED output
     ELSE pc' = "episodes_done" /\ output' = SortByTime(output) /\ UNCHANGED result
  /\ UNCHANGED <<data, args, params, edges, index, events, band, features>>

-----------------------------------------------------------------------------
(* Specification of get_episodes on day-long traces: flat at 100 mg/dL with *)
(* at most one plateau at 260 mg/dL that may dip to 150 mg/dL.             *)

DaySamples == (24 * 60) \div interval

\* plateau of len samples from 0-based position start; the dip covers the samples
\* dip_from .. dip_from + dip_len - 1 of the plateau
DayTrace(start, len, dip_from, dip_len) ==
  [k \in 1..DaySamples |->
     [t |-> (k - 1) * interval,
      g |-> IF k - 1 < start \/ k - 1 >= start + len THEN 100
            ELSE IF k - 1 - start >= dip_from /\ k - 1 - start < dip_from + dip_len THEN 150
            ELSE 260]]

PlateauLens == {6, 7}
PlateauStarts(len) == {0, DaySamples \div 2, DaySamples - len}

DayTraces ==
  {DayTrace(0, 0, 0, 0)}
  \cup UNION {{DayTrace(start, len, 0, 0) : start \in PlateauStarts(len)} : len \in PlateauLens}
  \cup UNION {UNION {{DayTrace(start, len, dip_from, dip_len) :
                        start \in PlateauStarts(len),
                        dip_from \in 1..(len - dip_len - 1)} : dip_len \in {1, 2}} :
              len \in PlateauLens}

InitEpisodes ==
  /\ data \in DayTraces
  /\ params = DefaultEpisodeParams
  /\ args = DefaultEpisodeParams
  /\ pc = "episodes_next"
  /\ edges = <<>>
  /\ index = 0
  /\ events = <<>>
  /\ band = 0
  /\ output = <<>>
  /\ result = NoResult
  /\ features = NoFeatures

NextEpisodes ==
  \/ GetEpisodesCallHelper
  \/ HelperEnter
  \/ HelperMerge
  \/ HelperEmit
  \/ HelperDiscard
  \/ HelperReturn
  \/ GetEpisodesCollect
  \/ GetEpisodesReturn

SpecEpisodes == InitEpisodes /\ [][NextEpisodes]_vars

-----------------------------------------------------------------------------
(* Specification of get_episodes on short, evenly sampled traces whose       *)
(* glucose crosses the three hyperglycemic or the two hypoglycemic           *)
(* thresholds, for short min_length and end_length (src/events.py:226-269).  *)

HyperLevels == {100, 150, 200, 260}
HypoLevels == {50, 60, 100}

BandTraces ==
  {[k \in 1..MaxLen |-> [t |-> (k - 1) * interval, g |-> gs[k]]] :
     gs \in [1..MaxLen -> HyperLevels] \cup [1..MaxLen -> HypoLevels]}

\* get_episodes(df, ..., min_length=m, end_length=e) with the default thresholds
BandParams ==
  {[DefaultEpisodeParams EXCEPT !.min_length = m, !.end_length = e] :
     m \in {interval, 2 * interval}, e \in {interval, 2 * interval}}

InitBands ==
  /\ data \in BandTraces
  /\ params \in BandParams
  /\ args = params
  /\ pc = "episodes_next"
  /\ edges = <<>>
  /\ index = 0
  /\ events = <<>>
  /\ band = 0
  /\ output = <<>>
  /\ result = NoResult
  /\ features = NoFeatures

SpecBands == InitBands /\ [][NextEpisodes]_vars

-----------------------------------------------------------------------------
(* Metrics: AUC and iAUC (src/events.py:413-438, src/features.py:60-68),   *)
(* MAGE (src/features.py:160-188)                                          *)

\* df[GLUCOSE]
Glucose(df) == [k \in 1..Len(df) |-> df[k].g]

\* sum(values)
RECURSIVE SumSeq(_)
SumSeq(s) == IF s = <<>> THEN 0 ELSE s[1] + SumSeq(Tail(s))

\* sum of y[i] + y[i+1] over the neighbouring pairs
RECURSIVE PairSums(_)
PairSums(ys) ==
  IF Len(ys) < 2 THEN 0 ELSE ys[1] + ys[2] + PairSums(Tail(ys))

\* variant: every sample weighted by a full interval
AUC_Rectangle(df) == Float(2 * interval * SumSeq(Glucose(df)), 2)

\* events.AUC: trapezoid(df[GLUCOSE], dx=interval) = sum of dx * (y[i] + y[i+1]) / 2
AUC(df) == Float(interval * PairSums(Glucose(df)), 2)

\* events.iAUC: abs(glucose - level), then values below 0 set to 0, then AUC
iAUC(df, level) ==
  LET distance == [k \in 1..Len(df) |-> [df[k] EXCEPT !.g = Abs(df[k].g - level)]]
      clipped == [k \in 1..Len(df) |->
                    [distance[k] EXCEPT !.g = IF distance[k].g < 0 THEN 0 ELSE distance[k].g]]
  IN  AUC(clipped)

\* features.AUC: trapezoid(df[GLUCOSE], dx=INTERVAL)
features_AUC(df) == Float(interval * PairSums(Glucose(df)), 2)

\* features.iAUC: glucose - level, then values below 0 set to 0, then AUC
features_iAUC(df, level) ==
  LET shifted == [k \in 1..Len(df) |-> [df[k] EXCEPT !.g = df[k].g - level]]
      clipped == [k \in 1..Len(df) |->
                    [shifted[k] EXCEPT !.g = IF shifted[k].g < 0 THEN 0 ELSE shifted[k].g]]
  IN  features_AUC(clipped)

\* rolling(window=short_ma, min_periods=1, center=True): the 0-based positions of
\* the window of position i, cut to the trace
RollingWindow(df, short_ma, i) ==
  LET hi == i + (short_ma - 1) \div 2
      lo == hi - short_ma + 1
  IN  {k \in 0..(Len(df) - 1) : lo <= k /\ k <= hi}

RECURSIVE SumOver(_, _)
SumOver(df, positions) ==
  IF positions = {} THEN 0
  ELSE LET k == CHOOSE x \in positions : TRUE
       IN  Iloc(df, k).g + SumOver(df, positions \ {k})

\* data["MA_Short"].iloc[i], as the quotient sum / count
MA_Short(df, short_ma, i) ==
  Float(SumOver(df, RollingWindow(df, short_ma, i)),
        Cardinality(RollingWindow(df, short_ma, i)))

\* np.sign(data["MA_Short"].diff()) at position i >= 1, zeros replaced by -1
\* (position 0 holds NaN: diff has nothing to subtract there)
Sign(df, short_ma, i) ==
  LET now == MA_Short(df, short_ma, i)
      before == MA_Short(df, short_ma, i - 1)
  IN  IF now.num * before.den > before.num * now.den THEN 1 ELSE -1

\* np.where(np.diff(signs))[0]: the positions j with signs[j + 1] - signs[j] nonzero;
\* the difference at position 0 is NaN, which counts as nonzero
Crossings(df, short_ma) ==
  SelectSeq([k \in 1..(Len(df) - 1) |-> k - 1],
            LAMBDA j : j = 0 \/ Sign(df, short_ma, j + 1) # Sign(df, short_ma, j))

\* glu = lambda x: data[GLUCOSE].iloc[x]
glu(df, x) == Iloc(df, x).g

\* glu(0) and glu(1) are read first: iloc raises IndexError on a single sample
peak_start(df) == IF glu(df, 0) < glu(df, 1) THEN 0 ELSE 1
valley_start(df) == Abs(peak_start(df) - 1)

\* range(first, int((len(crossings) + other) / 2)) of the two comprehensions
PairRange(first, other, crossings) == first..((Len(crossings) + other) \div 2 - 1)

\* crossings[(index * 2) + 1 + first] is read for every index of the range:
\* numpy raises IndexError when that position is past the end of crossings
PairsRaise(first, other, crossings) ==
  \E idx \in PairRange(first, other, crossings) : idx * 2 + 1 + first >= Len(crossings)

\* max / min of data[GLUCOSE][crossings[i] : crossings[i + 1]]
SliceMax(df, a, b) ==
  CHOOSE g \in {r.g : r \in {IlocSlice(df, a, b)[k] : k \in 1..Len(IlocSlice(df, a, b))}} :
    \A k \in 1..Len(IlocSlice(df, a, b)) : IlocSlice(df, a, b)[k].g <= g
SliceMin(df, a, b) ==
  CHOOSE g \in {r.g : r \in {IlocSlice(df, a, b)[k] : k \in 1..Len(IlocSlice(df, a, b))}} :
    \A k \in 1..Len(IlocSlice(df, a, b)) : IlocSlice(df, a, b)[k].g >= g

\* excursion > data[GLUCOSE].std(), decided exactly: excursion >= 0 and
\* sd^2 = (n*Q - S^2) / (n*(n-1))
ExceedsStd(df, excursion) ==
  excursion * excursion * Len(df) * (Len(df) - 1) * Len(df) > ScaledVar(df)

\* the significant excursions, in the order of the loop over range(len(crossings) - 1)
Excursions(df, crossings) ==
  LET all == [i \in 1..(Len(crossings) - 1) |->
                SliceMax(df, crossings[i], crossings[i + 1])
                - SliceMin(df, crossings[i], crossings[i + 1])]
  IN  SelectSeq(all, LAMBDA e : ExceedsStd(df, e))

\* MAGE(df, short_ma): what the call returns or raises
MAGE(df, short_ma) ==
  LET crossings == Crossings(df, short_ma)
      excursions == Excursions(df, crossings)
  IN  IF Len(df) < 2 THEN Raised("IndexError")
      ELSE IF PairsRaise(peak_start(df), valley_start(df), crossings)
              \/ PairsRaise(valley_start(df), peak_start(df), crossings)
      THEN Raised("IndexError")
      ELSE IF excursions = <<>> THEN Returned(NaN)
      ELSE Returned(Float(SumSeq(excursions), Len(excursions)))

AUCCall ==
  /\ pc = "metric_call"
  /\ args.fn = "events.AUC"
  /\ result' = Returned(AUC(data))
  /\ pc' = "metric_done"
  /\ UNCHANGED <<data, args, params, edges, index, events, band, output, features>>

iAUCCall ==
  /\ pc = "metric_call"
  /\ args.fn = "events.iAUC"
  /\ result' = Returned(iAUC(data, args.level))
  /\ pc' = "metric_done"
  /\ UNCHANGED <<data, args, params, edges, index, events, band, output, features>>

FeaturesAUCCall ==
  /\ pc = "metric_call"
  /\ args.fn = "features.AUC"
  /\ result' = Returned(features_AUC(data))
  /\ pc' = "metric_done"
  /\ UNCHANGED <<data, args, params, edges, index, events, band, output, features>>

FeaturesiAUCCall ==
  /\ pc = "metric_call"
  /\ args.fn = "features.iAUC"
  /\ result' = Returned(features_iAUC(data, args.level))
  /\ pc' = "metric_done"
  /\ UNCHANGED <<data, args, params, edges, index, events, band, output, features>>

MAGECall ==
  /\ pc = "metric_call"
  /\ args.fn = "features.MAGE"
  /\ result' = MAGE(data, args.short_ma)
  /\ pc' = "metric_done"
  /\ UNCHANGED <<data, args, params, edges, index, events, band, output, features>>

-----------------------------------------------------------------------------
(* Specification of the metric calls *)

Levels == GlucoseValues
ShortMAs == {3, 9}

MetricArgs ==
  {[fn |-> "events.AUC"], [fn |-> "features.AUC"]}
  \cup {[fn |-> "events.iAUC", level |-> level] : level \in Levels}
  \cup {[fn |-> "features.iAUC", level |-> level] : level \in Levels}
  \cup {[fn |-> "features.MAGE", short_ma |-> short_ma] : short_ma \in ShortMAs}

InitMetrics ==
  /\ data \in Traces
  /\ args \in MetricArgs
  /\ params = args
  /\ pc = "metric_call"
  /\ edges = <<>>
  /\ index = 0
  /\ events = <<>>
  /\ band = 0
  /\ output = <<>>
  /\ result = NoResult
  /\ features = NoFeatures

NextMetrics ==
  \/ AUCCall
  \/ iAUCCall
  \/ FeaturesAUCCall
  \/ FeaturesiAUCCall
  \/ MAGECall

SpecMetrics == InitMetrics /\ [][NextMetrics]_vars

-----------------------------------------------------------------------------
(* create_event_features_helper (src/events.py:529-587) with                *)
(* retrieve_event_data (369-401), for one patient and one event type.       *)
(* The per-event values are quotients of integers, kept exact.              *)

RECURSIVE GCD(_, _)
GCD(a, b) == IF b = 0 THEN a ELSE GCD(b, a % b)

\* the float num / den, den # 0, in lowest terms with a positive denominator
Quotient(num, den) ==
  LET sign == IF den < 0 THEN -1 ELSE 1
      g == GCD(Abs(num), Abs(den))
  IN  Float((sign * num) \div g, (sign * den) \div g)

\* a + b, abs(a), -1 * a and a / n on floats; NaN stays NaN
FloatAdd(a, b) ==
  IF a.nan \/ b.nan THEN NaN ELSE Quotient(a.num * b.den + b.num * a.den, a.den * b.den)
FloatAbs(a) == IF a.nan THEN NaN ELSE Quotient(Abs(a.num), a.den)
FloatNeg(a) == IF a.nan THEN NaN ELSE Quotient(-a.num, a.den)
FloatDiv(a, n) == IF a.nan THEN NaN ELSE Quotient(a.num, a.den * n)

RECURSIVE FloatSum(_)
FloatSum(v) == IF v = <<>> THEN Float(0, 1) ELSE FloatAdd(v[1], FloatSum(Tail(v)))

\* np.mean(v) of a list of floats; the mean of an empty list is NaN
NpMean(v) == IF v = <<>> THEN NaN ELSE FloatDiv(FloatSum(v), Len(v))

\* retrieve_event_data: the patient's rows with initial <= time <= final
retrieve_event_data(df, event) ==
  SelectSeq(df, LAMBDA r : /\ r.t >= event.time - event.before
                           /\ r.t <= event.time + event.after)

\* baseline(df) = df[GLUCOSE].iloc[0]
baseline(df) == Iloc(df, 0).g

\* peak(df) = np.max(df[GLUCOSE]), nadir(df) = np.min(df[GLUCOSE]); NaN on no rows
peak(df) ==
  IF df = <<>> THEN NaN
  ELSE Float(CHOOSE g \in {df[k].g : k \in 1..Len(df)} :
               \A k \in 1..Len(df) : df[k].g <= g, 1)
nadir(df) ==
  IF df = <<>> THEN NaN
  ELSE Float(CHOOSE g \in {df[k].g : k \in 1..Len(df)} :
               \A k \in 1..Len(df) : df[k].g >= g, 1)

\* event_data[event_data[TIME] == event[TIME]]: the rows at the anchor timestamp
AnchorRows(event_data, event) == SelectSeq(event_data, LAMBDA r : r.t = event.time)

\* what one iteration of the loop raises: baseline reads iloc[0] of an empty
\* table (IndexError); with no row at the anchor timestamp, extrema is an empty
\* table and extrema[TIME] - ... is a Series, which has no total_seconds
\* (AttributeError)
EventError(df, event) ==
  IF retrieve_event_data(df, event) = <<>> THEN "IndexError"
  ELSE IF AnchorRows(retrieve_event_data(df, event), event) = <<>> THEN "AttributeError"
  ELSE "none"

\* the values one iteration computes from an event whose anchor is a row of
\* its event_data
EventValues(df, event) ==
  LET event_data == retrieve_event_data(df, event)
      extrema == AnchorRows(event_data, event)[1]
      base == baseline(event_data)
      amplitude == extrema.g - base
      delta_time_start == timegap(extrema.t, Iloc(event_data, 0).t)
      delta_time_end == timegap(extrema.t, Iloc(event_data, -1).t)
      start_slope == IF delta_time_start = 0 THEN Float(0, 1)
                     ELSE Quotient(amplitude, delta_time_start)
      end_slope == IF delta_time_end = 0 THEN Float(0, 1)
                   ELSE Quotient(amplitude, delta_time_end)
  IN  [duration |-> Float(event.after - event.before, 1),
       glucose |-> Quotient(SumG(event_data), Len(event_data)),
       min |-> nadir(event_data),
       max |-> peak(event_data),
       amplitude |-> Float(Abs(amplitude), 1),
       up |-> IF amplitude >= 0 THEN FloatAbs(start_slope) ELSE FloatAbs(end_slope),
       down |-> IF amplitude >= 0 THEN FloatNeg(FloatAbs(end_slope))
                                  ELSE FloatNeg(FloatAbs(start_slope)),
       iAUC |-> iAUC(event_data, base)]

\* the dict of empty lists the function starts from
EmptyFeatures ==
  [duration |-> <<>>, glucose |-> <<>>, up |-> <<>>, down |-> <<>>,
   min |-> <<>>, max |-> <<>>, amplitude |-> <<>>, iAUC |-> <<>>]

\* one iteration: six features are appended to; the minimum and the maximum
\* are assigned, which replaces what the key held (kept here as a one-item list)
UpdateFeatures(f, v) ==
  [duration |-> Append(f.duration, v.duration),
   glucose |-> Append(f.glucose, v.glucose),
   min |-> <<v.min>>,
   max |-> <<v.max>>,
   amplitude |-> Append(f.amplitude, v.amplitude),
   up |-> Append(f.up, v.up),
   down |-> Append(f.down, v.down),
   iAUC |-> Append(f.iAUC, v.iAUC)]

\* len(df[TIME].dt.date.unique())
Days(df) == Cardinality({df[k].t \div (24 * 60) : k \in 1..Len(df)})

\* the returned dict: np.mean of every key, and the number of events per day
FinalFeatures(f, df, sub_events) ==
  [duration |-> NpMean(f.duration), glucose |-> NpMean(f.glucose),
   up |-> NpMean(f.up), down |-> NpMean(f.down),
   min |-> NpMean(f.min), max |-> NpMean(f.max),
   amplitude |-> NpMean(f.amplitude), iAUC |-> NpMean(f.iAUC),
   per_day |-> Quotient(Len(sub_events), Days(df))]

FeaturesEnter ==
  /\ pc = "features_call"
  /\ features' = EmptyFeatures
  /\ index' = 0
  /\ pc' = "features_loop"
  /\ UNCHANGED <<data, args, params, edges, events, band, output, result>>

FeaturesEvent ==
  /\ pc = "features_loop"
  /\ index < Len(args.sub_events)
  /\ EventError(data, args.sub_events[index + 1]) = "none"
  /\ features' = UpdateFeatures(features, EventValues(data, args.sub_events[index + 1]))
  /\ index' = index + 1
  /\ UNCHANGED <<data, args, params, pc, edges, events, band, output, result>>

FeaturesRaise ==
  /\ pc = "features_loop"
  /\ index < Len(args.sub_events)
  /\ EventError(data, args.sub_events[index + 1]) # "none"
  /\ result' = Raised(EventError(data, args.sub_events[index + 1]))
  /\ pc' = "features_raised"
  /\ UNCHANGED <<data, args, params, edges, index, events, band, output, features>>

FeaturesReturn ==
  /\ pc = "features_loop"
  /\ ~(index < Len(args.sub_events))
  /\ result' = Returned(FinalFeatures(features, data, args.sub_events))
  /\ pc' = "features_done"
  /\ UNCHANGED <<data, args, params, edges, index, events, band, output, features>>

-----------------------------------------------------------------------------
(* Specification of create_event_features_helper: short evenly sampled      *)
(* traces that start at midnight or one sample before it, and one to        *)
(* MaxEvents events of one type placed on and between the samples.          *)

\* longest trace handed to create_event_features_helper
MaxFeatureLen == 3
\* most events of one type
MaxEvents == 2

FeatureGlucose == {1, 3}
TraceStarts == {0, 24 * 60 - interval}

\* a patient's table holds at least two rows (df.loc[id] of a single row is no table)
FeatureTraces ==
  UNION {{[k \in 1..n |-> [t |-> start + (k - 1) * interval, g |-> gs[k]]] :
            gs \in [1..n -> FeatureGlucose], start \in TraceStarts} :
         n \in 2..MaxFeatureLen}

\* minutes from the first sample to an event's timestamp, and the window sizes
EventOffsets == {0, interval - 3, interval}
Befores == {0, interval}
Afters == {0, interval}

FeatureEvents(df) ==
  {[id |-> "p1", time |-> df[1].t + offset, before |-> before, after |-> after,
    type |-> "meal"] : offset \in EventOffsets, before \in Befores, after \in Afters}

FeatureArgs(df) ==
  {[fn |-> "create_event_features_helper", sub_events |-> evs, type |-> "meal"] :
     evs \in UNION {[1..k -> FeatureEvents(df)] : k \in 1..MaxEvents}}

InitFeatures ==
  /\ data \in FeatureTraces
  /\ args \in FeatureArgs(data)
  /\ params = args
  /\ pc = "features_call"
  /\ edges = <<>>
  /\ index = 0
  /\ events = <<>>
  /\ band = 0
  /\ output = <<>>
  /\ result = NoResult
  /\ features = NoFeatures

NextFeatures ==
  \/ FeaturesEnter
  \/ FeaturesEvent
  \/ FeaturesRaise
  \/ FeaturesReturn

SpecFeatures == InitFeatures /\ [][NextFeatures]_vars

-----------------------------------------------------------------------------
(* COGI (src/features.py:142-158) with percent_time_in_range (50-54).       *)
(* The standard deviation is a square root; the value of COGI is kept exact *)
(* as  constant + per_sd * sd  with two quotients of integers.              *)

FloatMul(a, b) == IF a.nan \/ b.nan THEN NaN ELSE Quotient(a.num * b.num, a.den * b.den)
FloatSub(a, b) == FloatAdd(a, FloatNeg(b))
\* np.minimum(a, b) of two numbers
FloatMin(a, b) == IF a.num * b.den <= b.num * a.den THEN a ELSE b

\* percent_time_in_range(df, low, high): bounds inclusive, NaN for an empty table
percent_time_in_range(df, low, high) ==
  LET in_range_df == SelectSeq(df, LAMBDA r : r.g <= high /\ r.g >= low)
  IN  IF Len(df) > 0 THEN Quotient(100 * Len(in_range_df), Len(df)) ELSE NaN

\* sd >= c and sd > c for sd = std(df) (ddof = 1) and an integer c >= 0, decided
\* on sd^2 = ScaledVar / (n^2 * (n - 1)); every comparison with a NaN sd is False
SdAtLeast(df, c) ==
  ~SdIsNaN(df) /\ ScaledVar(df) >= c * c * Len(df) * Len(df) * (Len(df) - 1)
SdAbove(df, c) ==
  ~SdIsNaN(df) /\ ScaledVar(df) > c * c * Len(df) * Len(df) * (Len(df) - 1)

\* a value constant + per_sd * sd
Linear(constant, per_sd) == [constant |-> constant, per_sd |-> per_sd]

\* the sd_score before weighting: 0, the interpolation (1 - sd / 108) * 100, or 100
sd_score(df) ==
  IF SdAtLeast(df, 108) THEN Linear(Quotient(0, 1), Quotient(0, 1))
  ELSE IF SdAbove(df, 18) THEN Linear(Quotient(100, 1), Quotient(-100, 108))
  ELSE Linear(Quotient(100, 1), Quotient(0, 1))

COGI(df) ==
  LET tir == percent_time_in_range(df, 70, 180)
      tir_score == FloatMul(Quotient(5, 10), tir)
      tbr == percent_time_in_range(df, 0, 70)
      tbr_score == FloatMul(Quotient(35, 100),
                            FloatMul(FloatSub(Quotient(1, 1),
                                              FloatDiv(FloatMin(tbr, Quotient(15, 1)), 15)),
                                     Quotient(100, 1)))
      weighted == Linear(FloatMul(Quotient(15, 100), sd_score(df).constant),
                         FloatMul(Quotient(15, 100), sd_score(df).per_sd))
  IN  Linear(FloatAdd(FloatAdd(tir_score, tbr_score), weighted.constant), weighted.per_sd)

COGICall ==
  /\ pc = "metric_call"
  /\ args.fn = "features.COGI"
  /\ result' = Returned(COGI(data))
  /\ pc' = "metric_done"
  /\ UNCHANGED <<data, args, params, edges, index, events, band, output, features>>

\* glucose values below, inside and above the target range; 82, 100, 118 have a
\* standard deviation of exactly 18
CogiValues == {60, 82, 100, 118, 300}
CogiTraces ==
  UNION {{MakeTrace(gs, [k \in 1..(n - 1) |-> interval]) : gs \in [1..n -> CogiValues]} :
         n \in 1..MaxFeatureLen}

InitCOGI ==
  /\ data \in CogiTraces
  /\ args = [fn |-> "features.COGI"]
  /\ params = args
  /\ pc = "metric_call"
  /\ edges = <<>>
  /\ index = 0
  /\ events = <<>>
  /\ band = 0
  /\ output = <<>>
  /\ result = NoResult
  /\ features = NoFeatures

NextCOGI == COGICall

SpecCOGI == InitCOGI /\ [][NextCOGI]_vars

-----------------------------------------------------------------------------
(* Vocabulary of the properties *)

\* the direction/threshold predicate as the design states it (inclusive)
Satisfies(type, threshold, g) ==
  \/ type = "hypo" /\ g <= threshold
  \/ type = "hyper" /\ g >= threshold

EvenlySampled(df) == \A k \in 2..Len(df) : df[k].t - df[k - 1].t = interval

SpanStart(e) == e.time - e.before
SpanEnd(e) == e.time + e.after
InSpan(e, t) == SpanStart(e) <= t /\ t <= SpanEnd(e)

IsEpisodeCall == args.fn = "_episodes_helper"
EpisodeEvents == IF IsEpisodeCall THEN {events[k] : k \in 1..Len(events)} ELSE {}

Sat(k) == Satisfies(args.type, args.threshold, data[k].g)

\* sample k lies in the look-ahead window behind the end j of a run of satisfying
\* samples, and that window holds a sample that has not returned to normal
InFailedLookAhead(k) ==
  \E j \in 1..(k - 1) :
    /\ Sat(j) /\ ~Sat(j + 1)
    /\ k - j <= Ceil(args.end_length, interval)
    /\ \E m \in (j + 1)..(j + Ceil(args.end_length, interval)) :
         /\ m <= Len(data)
         /\ IF args.type = "hypo" THEN data[m].g < args.threshold
                                  ELSE data[m].g > args.threshold

\* the samples immediately before and after the span of e do not satisfy the
\* predicate, unless they lie in a failed look-ahead window
NeighboursOutside(e) ==
  \A k \in 1..Len(data) :
    (\/ k < Len(data) /\ data[k + 1].t = SpanStart(e)
     \/ k > 1 /\ data[k - 1].t = SpanEnd(e))
    => (~Sat(k) \/ InFailedLookAhead(k))

\* C1 as stated: on an evenly sampled trace every sample inside the span of an
\* emitted episode satisfies the predicate, and the samples immediately outside
\* the span do not (unless inside a failed look-ahead window).
C1_EverySampleInSpanSatisfies ==
  (IsEpisodeCall /\ EvenlySampled(data)) =>
    \A e \in EpisodeEvents :
      /\ \A k \in 1..Len(data) : InSpan(e, data[k].t) => Sat(k)
      /\ NeighboursOutside(e)

\* C1 (amended): on an evenly sampled trace the first and the last sample of the
\* span of an emitted episode satisfy the predicate, every sample inside the span
\* satisfies it unless it lies in a look-ahead window that failed (and so caused
\* the merge that put it inside the span), and the samples immediately outside
\* the span do not satisfy it.
C1_SpanSatisfiesExceptMergedGaps ==
  (IsEpisodeCall /\ EvenlySampled(data)) =>
    \A e \in EpisodeEvents :
      /\ \E k \in 1..Len(data) : data[k].t = SpanStart(e) /\ Sat(k)
      /\ \E k \in 1..Len(data) : data[k].t = SpanEnd(e) /\ Sat(k)
      /\ \A k \in 1..Len(data) :
           InSpan(e, data[k].t) => (Sat(k) \/ InFailedLookAhead(k))
      /\ \A k \in 1..Len(data) :
           (\/ k < Len(data) /\ data[k + 1].t = SpanStart(e)
            \/ k > 1 /\ data[k - 1].t = SpanEnd(e))
           => ~Sat(k)

\* a finished call on an evenly sampled trace that emitted a merged episode: its
\* span holds a sample that does not satisfy the predicate
C1_Witness ==
  /\ IsEpisodeCall /\ pc = "helper_done" /\ EvenlySampled(data)
  /\ \E e \in EpisodeEvents :
       \E k \in 1..Len(data) : InSpan(e, data[k].t) /\ ~Sat(k)

\* sample k starts / ends a run of satisfying samples one interval apart
RunStart(k) ==
  /\ Sat(k)
  /\ \A j \in 1..(k - 1) :
       (Sat(j) /\ \A m \in (j + 1)..(k - 1) : ~Sat(m)) => data[k].t - data[j].t # interval
RunEnd(k) ==
  /\ Sat(k)
  /\ \A j \in (k + 1)..Len(data) :
       (Sat(j) /\ \A m \in (k + 1)..(j - 1) : ~Sat(m)) => data[j].t - data[k].t # interval

\* C2: every emitted episode has before = 0, its timestamp is the first sample
\* of its interval, after is the interval's end time minus its start time in
\* minutes, and after - before >= min_length.
C2_EpisodeEventFields ==
  \A e \in EpisodeEvents :
    /\ e.before = 0
    /\ \E k \in 1..Len(data) : data[k].t = e.time /\ RunStart(k)
    /\ \E k \in 1..Len(data) : data[k].t = e.time + e.after /\ RunEnd(k)
    /\ e.description = <<e.time, "to", e.time + e.after>>
    /\ e.after - e.before >= args.min_length

\* a finished call that emitted an episode made of several merged runs
C2_Witness ==
  /\ IsEpisodeCall /\ pc = "helper_done"
  /\ \E e \in EpisodeEvents :
       \E k \in 1..Len(data) :
         /\ SpanStart(e) < data[k].t /\ data[k].t <= SpanEnd(e)
         /\ RunStart(k)

\* spans of A are each contained in exactly one span of B, and B has no more
\* episodes than A
Coarsening(A, B) ==
  /\ \A i \in 1..Len(A) :
       Cardinality({j \in 1..Len(B) :
                      SpanStart(B[j]) <= SpanStart(A[i]) /\ SpanEnd(A[i]) <= SpanEnd(B[j])}) = 1
  /\ Len(B) <= Len(A)

\* C3: with trace, threshold, direction and min_length fixed, the episodes emitted
\* with a larger end_length are a coarsening of those emitted with a smaller one.
C3_EndLengthCoarsens ==
  (IsEpisodeCall /\ pc = "helper_done") =>
    \A e2 \in EndLengths :
      e2 >= args.end_length =>
        Coarsening(events, EpisodesHelper(data, [args EXCEPT !.end_length = e2]))

\* a finished call whose episodes are strictly fewer under a larger end_length
C3_Witness ==
  /\ IsEpisodeCall /\ pc = "helper_done"
  /\ \E e2 \in EndLengths :
       /\ e2 > args.end_length
       /\ Len(EpisodesHelper(data, [args EXCEPT !.end_length = e2])) < Len(events)

IsExcursionCall == args.fn = "get_excursions"
IsFlat(df) == \A k \in 1..Len(df) : df[k].g = df[1].g

\* C6: get_excursions on a perfectly flat trace emits no excursion event.
C6_FlatTraceNoExcursion ==
  (IsExcursionCall /\ EvenlySampled(data) /\ IsFlat(data)) => events = <<>>

\* timestamps of the samples strictly greater / smaller than both neighbours
LocalPeakTimes(df) ==
  {df[k].t : k \in {j \in 2..(Len(df) - 1) :
                      df[j - 1].g < df[j].g /\ df[j + 1].g < df[j].g}}
LocalNadirTimes(df) ==
  {df[k].t : k \in {j \in 2..(Len(df) - 1) :
                      df[j - 1].g > df[j].g /\ df[j + 1].g > df[j].g}}

\* the step emits an excursion event
EmitsExcursion == pc = "excursions_loop" /\ Len(events') = Len(events) + 1
\* the event it emits, and the raw (pre-snap) start of its interval
Emitted == events'[Len(events')]
RawStart == StartTime(Outliers(data, args.z), edges, index)
RawEnd == EndTime(Outliers(data, args.z), edges, index)

\* C8 as stated: the window start of every emitted excursion is at or before
\* every local peak that lies strictly before the excursion's raw start.
C8_WindowReachesEveryPeak ==
  [][EmitsExcursion =>
       \A p \in LocalPeakTimes(data) : p < RawStart => SpanStart(Emitted) <= p]_vars

\* the latest of a non-empty set of timestamps
Latest(T) == CHOOSE t \in T : \A u \in T : u <= t

\* C8 (amended): the window start of an emitted excursion whose raw interval does
\* not begin at the first trace sample is the nearest local peak at or before
\* the raw start for a hypo excursion, and the nearest local nadir at or before
\* it for a hyper excursion; with no such extremum, or at the first sample, it is
\* the raw start itself.
C8_WindowStartsAtNearestExtremum ==
  [][EmitsExcursion =>
       LET targets == IF Emitted.type[1] = "hypo" THEN LocalPeakTimes(data)
                                                  ELSE LocalNadirTimes(data)
           reach == {p \in targets : p <= RawStart}
       IN  /\ Emitted.type[1] = (IF data[IndexOfTime(data, RawStart) + 1].g * Len(data)
                                      > SumG(data) THEN "hyper" ELSE "hypo")
           /\ SpanStart(Emitted) =
                IF data[1].t # RawStart /\ reach # {} THEN Latest(reach) ELSE RawStart]_vars

\* an emitted hypo excursion whose window starts at a local peak outside its
\* outlier samples although an earlier local peak exists
C8_Witness ==
  /\ IsExcursionCall
  /\ \E e \in {events[k] : k \in 1..Len(events)} :
       /\ e.type[1] = "hypo"
       /\ SpanStart(e) \in LocalPeakTimes(data)
       /\ \E p \in LocalPeakTimes(data) : p < SpanStart(e)
       /\ \A r \in {Outliers(data, args.z)[k] : k \in 1..Len(Outliers(data, args.z))} :
            r.t # SpanStart(e)

\* the table the running call cuts into intervals: the samples satisfying its mask
Masked ==
  IF IsEpisodeCall
  THEN SelectSeq(data, LAMBDA r : Satisfies(args.type, args.threshold, r.g))
  ELSE SelectSeq(data, LAMBDA r : GeUpper(data, args.z, r.g) \/ LeLower(data, args.z, r.g))

\* the maximal runs <<first, last>> (0-based rows of the masked table m) whose
\* consecutive timestamps are exactly one sampling interval apart
MaximalRuns(m) ==
  {<<a, b>> \in (0..(Len(m) - 1)) \X (0..(Len(m) - 1)) :
     /\ a <= b
     /\ \A k \in (a + 1)..b : m[k + 1].t - m[k].t = interval
     /\ a = 0 \/ m[a + 1].t - m[a].t # interval
     /\ b = Len(m) - 1 \/ m[b + 2].t - m[b + 1].t # interval}

\* the index interval the loop forms at position i of the edge list
FormedInterval(m, es, i) ==
  <<StartIdx(es, i), IF EndIdx(es, i) < 0 THEN Len(m) + EndIdx(es, i) ELSE EndIdx(es, i)>>

\* the intervals formed from the edge list es over the masked table m are its
\* maximal runs, cover every row exactly once, and are disjoint and ascending
FormsMaximalRuns(m, es) ==
  /\ {FormedInterval(m, es, i) : i \in 0..(Len(es) - 2)} = MaximalRuns(m)
  /\ \A k \in 0..(Len(m) - 1) :
       Cardinality({i \in 0..(Len(es) - 2) :
                      /\ FormedInterval(m, es, i)[1] <= k
                      /\ k <= FormedInterval(m, es, i)[2]}) = 1
  /\ \A i \in 0..(Len(es) - 3) :
       FormedInterval(m, es, i)[2] < FormedInterval(m, es, i + 1)[1]

\* C10: before any length filter or merge, the index intervals formed from the
\* edge list are exactly the maximal runs of mask-satisfying samples one sampling
\* interval apart: every such sample lies in exactly one interval, and the
\* intervals are disjoint and in ascending order.
C10_RawIntervalsAreMaximalRuns ==
  [][(pc \in {"helper_call", "excursions_call"}) => FormsMaximalRuns(Masked, edges')]_vars

\* the loop has been entered and has neither filtered nor merged yet
BeforeFilterAndMerge ==
  /\ pc \in {"helper_loop", "excursions_loop"}
  /\ index = 0
  /\ Len(edges) = Cardinality(MaximalRuns(Masked)) + 1

\* a call of either detector that has just formed several intervals, two of them
\* separated only by an irregular gap between neighbouring samples
C10_Witness ==
  /\ BeforeFilterAndMerge
  /\ Len(edges) >= 3
  /\ \E k \in 1..(Len(Masked) - 1), j \in 1..(Len(data) - 1) :
       /\ Masked[k] = data[j] /\ Masked[k + 1] = data[j + 1]
       /\ data[j + 1].t - data[j].t # interval
       /\ \E i \in 1..(Len(edges) - 2) : ListGet(edges, i) = k

-----------------------------------------------------------------------------
(* The end-to-end scenarios of get_episodes *)

\* the trace is evenly sampled, day-long, flat at 100 but for len samples from
\* 1-based position first, which are 260 outside dips and 150 inside dips
PlateauShape(first, len, dips) ==
  /\ Len(data) = DaySamples
  /\ EvenlySampled(data)
  /\ \A k \in 1..Len(data) :
       data[k].g = IF k < first \/ k >= first + len THEN 100
                   ELSE IF k \in dips THEN 150 ELSE 260

\* a 30-minute plateau: 7 samples from its first to its last timestamp, or 6
\* samples of 5 minutes each
IsPlainPlateau ==
  \E len \in {6, 7}, first \in 1..Len(data) :
    first + len - 1 <= Len(data) /\ PlateauShape(first, len, {})

\* the same plateau with a dip of 5 minutes (one sample, or two samples 5 minutes
\* apart) in its middle: the sides of the dip differ by at most one sample
IsPlateauWithMidDip ==
  \E len \in {6, 7}, first \in 1..Len(data), dip_len \in {1, 2} :
    \E dip_first \in (first + 1)..(first + len - dip_len - 1) :
      /\ first + len - 1 <= Len(data)
      /\ (dip_first - first) - (first + len - dip_first - dip_len) \in {-1, 0, 1}
      /\ PlateauShape(first, len, dip_first..(dip_first + dip_len - 1))

HyperLevel1 == {k \in 1..Len(output) : output[k].type = <<"hyper", "level", 1, "episode">>}

\* C4: on the day-long trace with one 30-minute plateau at 260, get_episodes with
\* the default thresholds returns exactly one "hyper level 1 episode" event, whose
\* after is 30 within one sampling interval.
C4_PlateauGivesOneHyperLevel1 ==
  (pc \in {"episodes_done", "episodes_raised"} /\ IsPlainPlateau) =>
    /\ pc = "episodes_done"
    /\ Cardinality(HyperLevel1) = 1
    /\ \A k \in HyperLevel1 :
         /\ output[k].after >= 30 - interval
         /\ output[k].after <= 30 + interval

\* get_episodes has returned for a plateau of 7 samples away from the trace ends
C4_Witness ==
  /\ pc = "episodes_done" /\ IsPlainPlateau
  /\ data[1].g = 100 /\ data[Len(data)].g = 100
  /\ \E k \in HyperLevel1 : output[k].after = 30

\* C5: when the plateau dips to 150 for 5 minutes in its middle, get_episodes
\* returns a single merged "hyper level 1 episode" covering the whole plateau.
C5_MidDipGivesOneMergedEpisode ==
  (pc \in {"episodes_done", "episodes_raised"} /\ IsPlateauWithMidDip) =>
    /\ pc = "episodes_done"
    /\ Cardinality(HyperLevel1) = 1
    /\ \A k \in HyperLevel1 :
         \A j \in 1..Len(data) :
           data[j].g # 100 => InSpan(output[k], data[j].t)

-----------------------------------------------------------------------------
(* Metrics on flat and constant traces *)

MetricDone(fn) == pc = "metric_done" /\ args.fn = fn

\* C7: MAGE applied to a perfectly flat trace of at least two samples returns NaN
\* and raises no error.
C7_FlatTraceMAGEIsNaN ==
  (MetricDone("features.MAGE") /\ IsFlat(data) /\ Len(data) >= 2)
    => result = Returned(NaN)

\* the minutes spanned by the trace
SpanMinutes(df) == df[Len(df)].t - df[1].t

IsFloat(r, num, den) ==
  /\ r.status = "returned"
  /\ ~r.value.nan
  /\ r.value.num * den = num * r.value.den

\* C9: on an evenly sampled constant series of value v that spans n minutes, AUC
\* returns exactly v * n, and iAUC with level = v returns 0.
C9_ConstantSeriesArea ==
  (pc = "metric_done" /\ EvenlySampled(data) /\ IsFlat(data)) =>
    /\ args.fn \in {"events.AUC", "features.AUC"}
         => IsFloat(result, data[1].g * SpanMinutes(data), 1)
    /\ (args.fn \in {"events.iAUC", "features.iAUC"} /\ args.level = data[1].g)
         => IsFloat(result, 0, 1)

\* a constant series of several samples has gone through AUC, with a positive area
C9_Witness ==
  /\ MetricDone("events.AUC")
  /\ EvenlySampled(data) /\ IsFlat(data) /\ Len(data) >= 3
  /\ IsFloat(result, data[1].g * SpanMinutes(data), 1)
  /\ result.value.num > 0

-----------------------------------------------------------------------------
(* Input validation *)

\* C11: a call of _episodes_helper (for get_episodes) or of get_excursions on a
\* trace with irregular sampling gaps fails with an error instead of returning
\* events: it never reaches its return statement.
C11_IrregularTraceIsRejected ==
  ~EvenlySampled(data) => pc \notin {"helper_done", "excursions_done"}

-----------------------------------------------------------------------------
(* Event features *)

IsFeaturesCall == args.fn = "create_event_features_helper"
FeaturesFinished == IsFeaturesCall /\ pc \in {"features_done", "features_raised"}

\* no trace sample lies in the window [timestamp - before, timestamp + after]
WindowHoldsNoSample(e) ==
  \A k \in 1..Len(data) : ~(SpanStart(e) <= data[k].t /\ data[k].t <= SpanEnd(e))

\* the anchor timestamp is not the timestamp of a trace sample
AnchorIsNoSample(e) == \A k \in 1..Len(data) : data[k].t # e.time

\* C12: when an event's window holds no trace sample, or its anchor timestamp is
\* not a trace sample, create_event_features_helper does not raise: it returns,
\* and the averages fed by that event's metrics (the amplitude among them) are NaN.
C12_MissingSamplesGiveNaN ==
  (/\ FeaturesFinished
   /\ \E k \in 1..Len(args.sub_events) :
        WindowHoldsNoSample(args.sub_events[k]) \/ AnchorIsNoSample(args.sub_events[k]))
    => /\ pc = "features_done"
       /\ result.status = "returned"
       /\ result.value.amplitude.nan

\* the per-instance values of one metric over all events of the type
PerInstance(metric) ==
  [k \in 1..Len(args.sub_events) |-> EventValues(data, args.sub_events[k])[metric]]

\* C17: every per-type feature returned by create_event_features_helper is the
\* arithmetic mean of the metric's per-instance values over all k events, and the
\* per-day rate is k divided by the number of distinct calendar days of the trace.
C17_FeaturesAreMeansOverInstances ==
  (IsFeaturesCall /\ pc = "features_done") =>
    /\ \A metric \in {"duration", "glucose", "min", "max", "amplitude", "up", "down", "iAUC"} :
         result.value[metric] = NpMean(PerInstance(metric))
    /\ result.value.per_day.num * Days(data) = Len(args.sub_events) * result.value.per_day.den

-----------------------------------------------------------------------------
(* get_episodes without any qualifying interval *)

\* no severity band yields an episode for the trace
NoBandQualifies ==
  \A b \in 0..(NumBands - 1) : EpisodesHelper(data, BandArgs(params, b)) = <<>>

\* C13: get_episodes completes without raising for a patient whose trace yields
\* no qualifying interval in any of the five severity bands; the patient
\* contributes zero events.
C13_NoEpisodesReturnsEmpty ==
  (params.fn = "get_episodes" /\ NoBandQualifies
   /\ pc \in {"episodes_done", "episodes_raised"})
    => (pc = "episodes_done" /\ output = <<>>)

-----------------------------------------------------------------------------
(* The steps of the merge loop of _episodes_helper *)

\* the loop of _episodes_helper examines the interval at edges[index]
Examines == IsEpisodeCall /\ pc = "helper_loop" /\ index < Len(edges) - 1

\* the interval under examination: its bounds, whether it is the final one
ExaminedStart == StartTime(EpisodeDf(data, args.type, args.threshold), edges, index)
ExaminedEnd == EndTime(EpisodeDf(data, args.type, args.threshold), edges, index)
ExaminedIsFinal == index = Len(edges) - 2

\* the ceil(end_length / interval) trace samples that follow the last sample of
\* the interval under examination
FollowingSamples ==
  {k \in 1..Len(data) :
     \E j \in 1..Len(data) :
       /\ data[j].t = ExaminedEnd
       /\ \A m \in 1..(j - 1) : data[m].t # ExaminedEnd
       /\ j < k /\ k <= j + Ceil(args.end_length, interval)}

\* the step merges the examined interval with the next one and stays on it
MergesWithNext ==
  /\ edges' = ListPop(edges, index + 1)
  /\ index' = index
  /\ events' = events

\* the step emits the examined interval as it stands and moves on
EmitsUnmerged ==
  /\ events' = Append(events, [id |-> args.id, time |-> ExaminedStart, before |-> 0,
                               after |-> ExaminedEnd - ExaminedStart,
                               type |-> <<args.type, "level", args.level, "episode">>,
                               description |-> <<ExaminedStart, "to", ExaminedEnd>>])
  /\ index' = index + 1
  /\ edges' = edges

\* C14: a non-final interval that lasts at least min_length is merged with the
\* next interval exactly when one of the ceil(end_length / interval) samples
\* following its last sample is still on the episode side of the threshold
\* (<= threshold for hypo, >= threshold for hyper); otherwise it is emitted
\* unmerged.
C14_MergeIffNotBackToNormal ==
  [][(Examines /\ ~ExaminedIsFinal /\ ExaminedEnd - ExaminedStart >= args.min_length)
       => IF \E k \in FollowingSamples : Sat(k) THEN MergesWithNext ELSE EmitsUnmerged]_vars

\* the rows (0-based, in the table of mask-satisfying samples) of the interval
\* under examination, read off the edge list, and its times
IntervalFirstRow == ListGet(edges, index)
IntervalLastRow == IF ExaminedIsFinal THEN Len(Masked) - 1 ELSE ListGet(edges, index + 1) - 1
IntervalStart == Masked[IntervalFirstRow + 1].t
IntervalEnd == Masked[IntervalLastRow + 1].t

\* the step emits one episode over the interval under examination and moves on
EmitsInterval ==
  /\ Len(events') = Len(events) + 1
  /\ SubSeq(events', 1, Len(events)) = events
  /\ events'[Len(events')].time = IntervalStart
  /\ events'[Len(events')].before = 0
  /\ events'[Len(events')].after = IntervalEnd - IntervalStart
  /\ index' = index + 1
  /\ edges' = edges
  /\ pc' = "helper_loop"

\* C15: the final interval of a band (the last raw interval, or one that became
\* final by merging) is emitted as soon as it lasts at least min_length, with no
\* look-ahead and no error, whatever trace samples follow it.
C15_FinalIntervalEmittedWithoutLookAhead ==
  [][(Examines /\ ExaminedIsFinal /\ IntervalEnd - IntervalStart >= args.min_length)
       => EmitsInterval]_vars

\* a finished call whose last episode became final by a merge and is followed
\* by further trace samples
C15_Witness ==
  /\ IsEpisodeCall /\ pc = "helper_done" /\ events # <<>>
  /\ LET e == events[Len(events)]
     IN  /\ SpanEnd(e) = Masked[Len(Masked)].t
         /\ SpanEnd(e) < data[Len(data)].t
         /\ \E k \in 1..Len(data) : InSpan(e, data[k].t) /\ ~Sat(k)

\* C16: an interval that lasts less than min_length when it is examined produces
\* no event and is not merged into the following interval, even if that one
\* starts within the look-ahead window; the loop moves on to the following
\* interval, which is examined from its own start.
C16_ShortIntervalDiscarded ==
  [][(Examines /\ IntervalEnd - IntervalStart < args.min_length)
       => /\ events' = events
          /\ edges' = edges
          /\ index' = index + 1
          /\ pc' = "helper_loop"]_vars

\* a finished call that dropped a short interval and emitted the interval that
\* follows it within the look-ahead window, from that interval's own start
C16_Witness ==
  /\ IsEpisodeCall /\ pc = "helper_done"
  /\ \E e \in EpisodeEvents, k \in 1..Len(data) :
       /\ Sat(k)
       /\ data[k].t < e.time
       /\ e.time - data[k].t <= args.end_length
       /\ \A f \in EpisodeEvents : ~InSpan(f, data[k].t)

-----------------------------------------------------------------------------
(* The anchor of an excursion *)

\* the glucose values of the outlier samples of the interval under examination
IntervalGlucose == {Masked[r + 1].g : r \in IntervalFirstRow..IntervalLastRow}

\* the interval is classified hyper: its first outlier sample is above the trace mean
ClassifiedHyper == Masked[IntervalFirstRow + 1].g * Len(data) > SumG(data)

\* C18: the timestamp of every emitted excursion is a trace sample inside the raw
\* (pre-snap, possibly merged) interval, and its glucose is the maximum over the
\* interval's outlier samples when the interval is classified hyper, the minimum
\* when it is classified hypo.
C18_AnchorIsIntervalExtremum ==
  [][EmitsExcursion =>
       /\ Emitted.type = <<IF ClassifiedHyper THEN "hyper" ELSE "hypo", "excursion">>
       /\ IntervalStart <= Emitted.time /\ Emitted.time <= IntervalEnd
       /\ \E k \in 1..Len(data) :
            /\ data[k].t = Emitted.time
            /\ data[k].g \in IntervalGlucose
            /\ \A g \in IntervalGlucose :
                 IF ClassifiedHyper THEN g <= data[k].g ELSE g >= data[k].g]_vars

\* an emitted excursion whose anchor is not the first sample of its interval: the
\* sample one interval before the anchor is an outlier of a different value
C18_Witness ==
  /\ IsExcursionCall
  /\ \E e \in {events[k] : k \in 1..Len(events)}, k \in 1..(Len(data) - 1) :
       /\ data[k + 1].t = e.time
       /\ data[k + 1].t - data[k].t = interval
       /\ data[k].g # data[k + 1].g
       /\ \E r \in 1..Len(Masked) : Masked[r] = data[k]

-----------------------------------------------------------------------------
(* iAUC in either direction *)

\* |glucose - level| clipped at 0, sample by sample
Departure(df, level) ==
  [k \in 1..Len(df) |-> IF Abs(df[k].g - level) < 0 THEN 0 ELSE Abs(df[k].g - level)]

\* C19: in every iAUC definition of the package, iAUC is the trapezoidal AUC of
\* |glucose - level| clipped at 0: samples below the level contribute positively.
C19_iAUCCountsBothDirections ==
  (pc = "metric_done" /\ args.fn \in {"events.iAUC", "features.iAUC"}) =>
    IsFloat(result, interval * PairSums(Departure(data, args.level)), 2)

-----------------------------------------------------------------------------
(* The variability component of COGI *)

\* the sd_score as the design states it: 100 when sd < 18, 0 when sd >= 108,
\* (1 - sd / 108) * 100 in between, sd = 18 included
StatedSdScore(df) ==
  IF ~SdAtLeast(df, 18) THEN Linear(Quotient(100, 1), Quotient(0, 1))
  ELSE IF SdAtLeast(df, 108) THEN Linear(Quotient(0, 1), Quotient(0, 1))
  ELSE Linear(Quotient(100, 1), Quotient(-100, 108))

\* 0.5 * TIR[70,180] + 0.35 * (1 - min(TBR, 15) / 15) * 100 + 0.15 * sd_score,
\* with TBR the percentage of samples from 0 to 70
StatedCOGI(df) ==
  LET TIR == Quotient(100 * Cardinality({k \in 1..Len(df) : 70 <= df[k].g /\ df[k].g <= 180}),
                      Len(df))
      TBR == Quotient(100 * Cardinality({k \in 1..Len(df) : 0 <= df[k].g /\ df[k].g <= 70}),
                      Len(df))
      capped == IF TBR.num <= 15 * TBR.den THEN TBR ELSE Quotient(15, 1)
      \* 35 * (1 - capped / 15)
      tbr_part == Quotient(35 * (15 * capped.den - capped.num), 15 * capped.den)
      tir_part == Quotient(TIR.num, 2 * TIR.den)
      sd_part == StatedSdScore(df)
  IN  Linear(FloatAdd(FloatAdd(tir_part, tbr_part),
                      Quotient(15 * sd_part.constant.num, 100 * sd_part.constant.den)),
             Quotient(15 * sd_part.per_sd.num, 100 * sd_part.per_sd.den))

\* C20: for a trace with a defined standard deviation, COGI is
\* 0.5 * TIR + 0.35 * (1 - min(TBR, 15) / 15) * 100 + 0.15 * sd_score with sd_score
\* 100 when sd < 18, 0 when sd >= 108 and (1 - sd / 108) * 100 for 18 <= sd < 108.
C20_COGIFormula ==
  (MetricDone("features.COGI") /\ Len(data) >= 2) => result = Returned(StatedCOGI(data))

-----------------------------------------------------------------------------
(* The direction of a flat step of the smoothed curve in MAGE *)

\* the smoothed curve does not move from position i - 1 to position i (0-based)
FlatStep(df, short_ma, i) ==
  MA_Short(df, short_ma, i).num * MA_Short(df, short_ma, i - 1).den
    = MA_Short(df, short_ma, i - 1).num * MA_Short(df, short_ma, i).den

\* C21: in MAGE a sample whose smoothed-curve difference is zero gets the sign of
\* the preceding sample, so no crossing is recorded between the two.
C21_ZeroDifferenceInheritsSign ==
  MetricDone("features.MAGE") =>
    \A i \in 2..(Len(data) - 1) :
      FlatStep(data, args.short_ma, i) =>
        /\ Sign(data, args.short_ma, i) = Sign(data, args.short_ma, i - 1)
        /\ \A c \in 1..Len(Crossings(data, args.short_ma)) :
             Crossings(data, args.short_ma)[c] # i - 1

-----------------------------------------------------------------------------
(* Nesting of the severity bands of get_episodes *)

EpisodesDone == params.fn = "get_episodes" /\ pc = "episodes_done"

\* the episodes of one band in the table get_episodes returns
BandEpisodes(type, level) ==
  {output[k] : k \in {j \in 1..Len(output) : output[j].type = EpisodeType(type, level)}}

\* every episode of the band (type, severe) lies within some episode of the band
\* (type, mild)
NestedIn(type, severe, mild) ==
  \A e \in BandEpisodes(type, severe) :
    \E f \in BandEpisodes(type, mild) :
      SpanStart(f) <= SpanStart(e) /\ SpanEnd(e) <= SpanEnd(f)

\* C22: on a gap-free trace, with increasing hyper thresholds, decreasing hypo
\* thresholds and one min_length and end_length for all bands, the span of every
\* episode of a more severe band lies within the span of an episode of the next
\* less severe band of the same direction.
C22_SevereEpisodesNestInMilder ==
  (EpisodesDone /\ EvenlySampled(data)
     /\ params.hyper_lvl0 < params.hyper_lvl1 /\ params.hyper_lvl1 < params.hyper_lvl2
     /\ params.hypo_lvl2 < params.hypo_lvl1) =>
    /\ NestedIn("hyper", 2, 1)
    /\ NestedIn("hyper", 1, 0)
    /\ NestedIn("hypo", 2, 1)

\* a severe episode that was merged over a milder stretch lies within one episode
\* of the next band
C22_Witness ==
  /\ EpisodesDone /\ EvenlySampled(data)
  /\ \E e \in BandEpisodes("hyper", 2) :
       /\ \E k \in 1..Len(data) : InSpan(e, data[k].t) /\ data[k].g < params.hyper_lvl2
       /\ \E f \in BandEpisodes("hyper", 1) :
            SpanStart(f) < SpanStart(e) /\ SpanEnd(e) <= SpanEnd(f)

-----------------------------------------------------------------------------
(* Order and coverage of the episodes of one _episodes_helper call *)

HelperDone == IsEpisodeCall /\ pc = "helper_done"

\* the emitted episodes whose span holds the whole raw interval r of Masked
EpisodesHolding(r) ==
  {k \in 1..Len(events) :
     /\ SpanStart(events[k]) <= Masked[r[1] + 1].t
     /\ Masked[r[2] + 1].t <= SpanEnd(events[k])}

\* C23: the episodes of one _episodes_helper call are in strictly ascending start
\* order, each ends strictly before the next starts, and every raw interval is
\* shorter than min_length or lies within exactly one emitted episode.
C23_EpisodesOrderedDisjointCovering ==
  HelperDone =>
    /\ \A k \in 1..(Len(events) - 1) :
         /\ events[k].time < events[k + 1].time
         /\ SpanEnd(events[k]) < SpanStart(events[k + 1])
    /\ \A r \in MaximalRuns(Masked) :
         \/ Masked[r[2] + 1].t - Masked[r[1] + 1].t < args.min_length
         \/ Cardinality(EpisodesHolding(r)) = 1

\* two episodes were emitted, one for each of two raw intervals
C23_Witness ==
  /\ HelperDone
  /\ Len(events) = 2
  /\ \A r \in MaximalRuns(Masked) : Cardinality(EpisodesHolding(r)) = 1

-----------------------------------------------------------------------------
(* Termination of the merge loops of _episodes_helper and get_excursions *)

InLoop == pc \in {"helper_loop", "excursions_loop"}
LoopDone == pc \in {"helper_done", "excursions_done"}

\* the raw intervals of the call, and the iterations run so far: one per
\* boundary removed and one per interval passed
RawIntervals == Cardinality(MaximalRuns(Masked))
Iterations == (RawIntervals - (Len(edges) - 1)) + index

\* C24: every iteration of the merge loops removes one boundary from the edge
\* list or advances the interval index, the loops run at most twice as many
\* iterations as there are raw intervals, and every call reaches the end of its
\* loop with no interval left.
C24_LoopsTerminate ==
  /\ [][(InLoop /\ pc' = pc) =>
          \/ Len(edges') = Len(edges) - 1 /\ index' = index
          \/ edges' = edges /\ index' = index + 1]_vars
  /\ []((InLoop \/ LoopDone) =>
          /\ 0 <= Iterations /\ Iterations <= 2 * RawIntervals
          /\ index <= Len(edges) - 1)
  /\ [](LoopDone => index = Len(edges) - 1)
  /\ <>LoopDone

\* a loop that has ended after removing a boundary and passing an interval
C24_Witness ==
  /\ LoopDone
  /\ Len(edges) - 1 < RawIntervals
  /\ index >= 1

-----------------------------------------------------------------------------
(* The duration folded into "Mean <type> Duration" *)

\* C25: the duration create_event_features_helper folds in for an event is the
\* length in minutes of its window [timestamp - before, timestamp + after], that
\* is before + after, whether before is positive or zero.
C25_DurationIsWindowLength ==
  (IsFeaturesCall /\ pc \in {"features_loop", "features_done"}) =>
    \A k \in 1..Len(features.duration) :
      features.duration[k] =
        Float(SpanEnd(args.sub_events[k]) - SpanStart(args.sub_events[k]), 1)

-----------------------------------------------------------------------------
(* The window of an excursion and its raw interval *)

\* C26: every excursion emitted by get_excursions has before >= 0 and after >= 0,
\* and its window [timestamp - before, timestamp + after] holds every sample of
\* its raw interval: the snap moves the start no later and the end no earlier.
C26_WindowHoldsRawInterval ==
  [][EmitsExcursion =>
       /\ Emitted.before >= 0
       /\ Emitted.after >= 0
       /\ SpanStart(Emitted) <= RawStart
       /\ RawEnd <= SpanEnd(Emitted)
       /\ \A k \in IntervalFirstRow..IntervalLastRow : InSpan(Emitted, Masked[k + 1].t)]_vars

\* an emitted excursion that reaches back before its anchor and whose window was
\* widened at both ends to samples that are no outliers
C26_Witness ==
  /\ IsExcursionCall
  /\ \E e \in {events[k] : k \in 1..Len(events)} :
       /\ e.before > 0
       /\ \A r \in 1..Len(Masked) : Masked[r].t # SpanStart(e) /\ Masked[r].t # SpanEnd(e)

====
